---- MODULE Spec2Model ----
(***************************************************************************)
(* Model of the LNURL command-line client (src/src/main.rs).               *)
(*                                                                         *)
(* One process run: main() parses the command line, runs one of the three  *)
(* flows (channel_request, withdraw_request, auth_request) and exits.      *)
(* The local node (cln_rpc) and the LNURL server (ureq) are the            *)
(* environment: every answer they can give is a nondeterministic choice.   *)
(*                                                                         *)
(* Text is modelled as a sequence of tokens: the separator characters the  *)
(* code searches for ('@', ':', "//", '/', '[', ']') are tokens of their   *)
(* own, every other token is a chunk of characters holding none of them.   *)
(* Option<T> is a sequence of length at most one.                          *)
(***************************************************************************)
EXTENDS Integers, Sequences, FiniteSets, TLC

VARIABLES
    pc,         \* position of the process in main() / the running flow
    args,       \* std::env::args(): args[1] is the program name
    cmd,        \* the Commands value returned by parse_args
    locals,     \* the local variables of the running flow
    calls,      \* every node-RPC and HTTP call issued so far, in order (and
                \* the building of the runtime, kind "sys", when it failed)
    stderr,     \* the lines written to the error stream
    result,     \* how the flow function ended: "none", "Ok", "Err", "Panic"
    exitCode    \* Option<int>: the process's exit code once it has exited

vars == <<pc, args, cmd, locals, calls, stderr, result, exitCode>>

None == <<>>
Some(x) == <<x>>

Range(s) == {s[i] : i \in DOMAIN s}

\* ------------------------------------------------------------------------
\* Bounds of the model
\* ------------------------------------------------------------------------

\* minWithdrawable / maxWithdrawable answered by the server range over 0..MaxMsat
MaxMsat == 3

\* ------------------------------------------------------------------------
\* Text: tokens, numbers, IP addresses
\* ------------------------------------------------------------------------

\* decimal chunks that fit a u16, with their values (str::parse::<u16>)
U16Value ==
    [t \in {"0", "1", "01", "2", "3", "80", "443", "8080", "9735"} |->
        CASE t = "0" -> 0 [] t = "1" -> 1 [] t = "01" -> 1 [] t = "2" -> 2
          [] t = "3" -> 3 [] t = "80" -> 80 [] t = "443" -> 443
          [] t = "8080" -> 8080 [] t = "9735" -> 9735]

\* str::parse::<u16>: Some(value) for a decimal chunk in range, else None
ParseU16(s) ==
    IF Len(s) = 1 /\ s[1] \in DOMAIN U16Value THEN Some(U16Value[s[1]]) ELSE None

\* str::parse::<u64>: as u16, plus "70000"; "99999999999999999999" overflows,
\* "abc" is no number
ParseU64(s) ==
    IF Len(s) = 1 /\ s[1] \in DOMAIN U16Value THEN Some(U16Value[s[1]])
    ELSE IF s = <<"70000">> THEN Some(70000)
    ELSE None

Ipv4Chunks == {"1.2.3.4", "127.0.0.1"}

\* the IPv6 literals of the model, each with the text Display gives it
Ipv6Display(s) ==
    CASE s = <<":", ":", "1">> -> Some(<<":", ":", "1">>)
      [] s = <<":", ":", "01">> -> Some(<<":", ":", "1">>)
      [] s = <<":", ":", "1", ":", "8080">> -> Some(<<":", ":", "1", ":", "8080">>)
      [] OTHER -> None

\* IpAddr::from_str followed by Display: Some(canonical text), or None
IpAddr_from_str(s) ==
    IF Len(s) = 1 /\ s[1] \in Ipv4Chunks THEN Some(s)
    ELSE Ipv6Display(s)

\* str::find / str::rfind of one token: Some(index) or None
FindTok(s, t) ==
    IF \E i \in DOMAIN s : s[i] = t
    THEN Some(CHOOSE i \in DOMAIN s : s[i] = t /\ \A j \in 1..(i-1) : s[j] # t)
    ELSE None

RFindTok(s, t) ==
    IF \E i \in DOMAIN s : s[i] = t
    THEN Some(CHOOSE i \in DOMAIN s : s[i] = t /\ \A j \in (i+1)..Len(s) : s[j] # t)
    ELSE None

\* str::split(sep): the pieces between the occurrences of sep
RECURSIVE Split(_, _)
Split(s, sep) ==
    LET p == FindTok(s, sep) IN
    IF p = None THEN <<s>>
    ELSE <<SubSeq(s, 1, p[1] - 1)>> \o Split(SubSeq(s, p[1] + 1, Len(s)), sep)

\* the text of a port number (Display of u16)
U16Text(n) == CHOOSE t \in DOMAIN U16Value : U16Value[t] = n /\ t # "01"

\* ------------------------------------------------------------------------
\* url::Url
\* ------------------------------------------------------------------------

\* the names of the model: chunks that start with a letter and hold only
\* letters, digits, '+', '-', '.'. Each has the shape of a URL scheme and is
\* a valid host name.
NameChunks == {"http", "https", "localhost", "example.com", "abc"}
SchemeChunks == NameChunks
SpecialSchemes == {"http", "https"}

\* a host of a special scheme that is a number is an IPv4 address written as
\* one number (a leading 0 makes it octal)
NumericHost ==
    [t \in {"0", "1", "01", "2", "3", "80", "443", "8080", "9735", "70000"} |->
        CASE t = "0" -> "0.0.0.0" [] t = "1" -> "0.0.0.1" [] t = "01" -> "0.0.0.1"
          [] t = "2" -> "0.0.0.2" [] t = "3" -> "0.0.0.3" [] t = "80" -> "0.0.0.80"
          [] t = "443" -> "0.0.1.187" [] t = "8080" -> "0.0.31.144"
          [] t = "9735" -> "0.0.38.7" [] t = "70000" -> "0.1.17.112"]

HostChunks == NameChunks \cup Ipv4Chunks \cup DOMAIN NumericHost

\* Url::port_or_known_default's table
KnownDefaultPort(scheme) ==
    CASE scheme = "http" -> Some(80)
      [] scheme = "https" -> Some(443)
      [] OTHER -> None

\* one or two '/'
IsSlash(t) == t \in {"/", "//"}

\* the index of the first slash token of s, Len(s) + 1 when it has none
FirstSlash(s) ==
    IF \E i \in DOMAIN s : IsSlash(s[i])
    THEN CHOOSE i \in DOMAIN s : IsSlash(s[i]) /\ \A j \in 1..(i-1) : ~IsSlash(s[j])
    ELSE Len(s) + 1

\* s without the slashes it starts with
RECURSIVE SkipSlashes(_)
SkipSlashes(s) ==
    IF Len(s) >= 1 /\ IsSlash(s[1]) THEN SkipSlashes(Tail(s)) ELSE s

\* how many '/' the text s starts with
RECURSIVE SlashCount(_)
SlashCount(s) ==
    IF Len(s) >= 1 /\ IsSlash(s[1])
    THEN (IF s[1] = "//" THEN 2 ELSE 1) + SlashCount(Tail(s))
    ELSE 0

\* the text of n '/'
RECURSIVE Slashes(_)
Slashes(n) ==
    IF n >= 2 THEN <<"//">> \o Slashes(n - 2)
    ELSE IF n = 1 THEN <<"/">> ELSE <<>>

\* the port of an authority, after the host: "", ":" or ":port" with a u16
PortOk(after) ==
    \/ after = <<>>
    \/ after = <<":">>
    \/ Len(after) = 2 /\ after[1] = ":" /\ ParseU16(SubSeq(after, 2, 2)) # None

\* an explicit port equal to the scheme's default is dropped, as the url
\* crate does
PortOf(scheme, after) ==
    IF Len(after) = 2 /\ ParseU16(SubSeq(after, 2, 2)) # KnownDefaultPort(scheme)
    THEN ParseU16(SubSeq(after, 2, 2)) ELSE None

\* the host of an authority: a bracketed IPv6 literal (kept in canonical
\* form), a name or an IPv4 address; a number is an IPv4 address for a
\* special scheme and an opaque host for any other
HostOf(scheme, hostPart) ==
    IF Len(hostPart) >= 1 /\ hostPart[1] = "["
    THEN IF Len(hostPart) >= 3 /\ Ipv6Display(SubSeq(hostPart, 2, Len(hostPart) - 1)) # None
         THEN Some(<<"[">> \o Ipv6Display(SubSeq(hostPart, 2, Len(hostPart) - 1))[1]
                   \o <<"]">>)
         ELSE None
    ELSE IF Len(hostPart) = 1 /\ hostPart[1] \in HostChunks
    THEN IF scheme \in SpecialSchemes /\ hostPart[1] \in DOMAIN NumericHost
         THEN Some(<<NumericHost[hostPart[1]]>>)
         ELSE Some(hostPart)
    ELSE None

\* where the host of host[:port] ends: at the "]" of a bracketed literal,
\* else before the first ":"
HostEnd(auth) ==
    IF Len(auth) >= 1 /\ auth[1] = "["
    THEN (IF FindTok(auth, "]") = None THEN 0 ELSE FindTok(auth, "]")[1])
    ELSE (IF FindTok(auth, ":") = None THEN Len(auth) ELSE FindTok(auth, ":")[1] - 1)

\* the characters of a user name or password that are percent-encoded
EncodeUserinfo(u) ==
    [i \in DOMAIN u |->
        CASE u[i] = "@" -> "%40" [] u[i] = ":" -> "%3A"
          [] u[i] = "[" -> "%5B" [] u[i] = "]" -> "%5D" [] OTHER -> u[i]]

\* user[:password] as the URL keeps it: split at the first ':', an empty
\* password dropped
Credentials(u, colon) ==
    IF colon = None THEN EncodeUserinfo(u)
    ELSE EncodeUserinfo(SubSeq(u, 1, colon[1] - 1))
         \o (IF colon[1] = Len(u) THEN <<>>
             ELSE <<":">> \o EncodeUserinfo(SubSeq(u, colon[1] + 1, Len(u))))

\* the userinfo of an authority, what stands before its last '@' at at
UserinfoOf(auth, at) ==
    IF at = None THEN <<>>
    ELSE Credentials(SubSeq(auth, 1, at[1] - 1), FindTok(SubSeq(auth, 1, at[1] - 1), ":"))

\* host[:port] of an authority, what stands after its last '@' at at
HostPortOf(auth, at) ==
    IF at = None THEN auth ELSE SubSeq(auth, at[1] + 1, Len(auth))

AuthorityOf(scheme, userinfo, hostPart, after) ==
    IF HostOf(scheme, hostPart) # None /\ PortOk(after)
    THEN Some([userinfo |-> userinfo, host |-> HostOf(scheme, hostPart)[1],
               port |-> PortOf(scheme, after)])
    ELSE None

HostAndPort(scheme, userinfo, hp) ==
    AuthorityOf(scheme, userinfo, SubSeq(hp, 1, HostEnd(hp)),
                SubSeq(hp, HostEnd(hp) + 1, Len(hp)))

UrlOf(scheme, a, path) ==
    IF a = None THEN None
    ELSE Some([scheme |-> scheme, authority |-> TRUE, userinfo |-> a[1].userinfo,
               host |-> Some(a[1].host), port |-> a[1].port,
               path |-> IF path = <<>> /\ scheme \in SpecialSchemes
                        THEN <<"/">> ELSE path])

\* a URL with an authority that holds no host
Hostless(scheme, path) ==
    Some([scheme |-> scheme, authority |-> TRUE, userinfo |-> <<>>,
          host |-> None, port |-> None, path |-> path])

\* the URL of scheme, of the authority auth = [userinfo@]hp and path: a
\* scheme that is not special can have an authority without host, one that
\* is empty or holds only an empty userinfo ("@", ":@"), but an authority
\* that is a single '@' with a path after it is refused for its empty host;
\* any other authority needs a host
UrlFrom(scheme, auth, userinfo, hp, path) ==
    IF auth = <<"@">> /\ path # <<>> THEN None
    ELSE IF scheme \notin SpecialSchemes /\ hp = <<>> /\ userinfo = <<>>
    THEN Hostless(scheme, path)
    ELSE UrlOf(scheme, HostAndPort(scheme, userinfo, hp), path)

\* the URL of scheme: and body, where body is authority and path, the
\* authority ending at slash
UrlAt(scheme, body, slash) ==
    UrlFrom(scheme, SubSeq(body, 1, slash - 1),
            UserinfoOf(SubSeq(body, 1, slash - 1),
                       RFindTok(SubSeq(body, 1, slash - 1), "@")),
            HostPortOf(SubSeq(body, 1, slash - 1),
                       RFindTok(SubSeq(body, 1, slash - 1), "@")),
            SubSeq(body, slash, Len(body)))

UrlWithAuthority(scheme, body) == UrlAt(scheme, body, FirstSlash(body))

\* what follows the scheme of a URL that is not special, starting with n
\* slashes: two slashes open an authority, the slashes after them start the
\* path; with fewer the URL has no authority and rest is its path
NotSpecial(scheme, rest, n) ==
    IF n >= 2
    THEN UrlWithAuthority(scheme, Slashes(n - 2) \o SkipSlashes(rest))
    ELSE Some([scheme |-> scheme, authority |-> FALSE, userinfo |-> <<>>,
               host |-> None, port |-> None, path |-> rest])

\* Url::parse. Some(url) or None. A url is [scheme, authority: bool,
\* userinfo: text, host: Option<text>, port: Option<u16>, path: text]. After
\* a special scheme any number of slashes comes before the authority, which
\* needs a host; any other scheme has an authority only after "//", and
\* without it the URL has no host and the rest of the input is its path.
Url_parse(input) ==
    IF ~(Len(input) >= 2 /\ input[1] \in SchemeChunks /\ input[2] = ":") THEN None
    ELSE IF input[1] \in SpecialSchemes
    THEN UrlWithAuthority(input[1], SkipSlashes(SubSeq(input, 3, Len(input))))
    ELSE NotSpecial(input[1], SubSeq(input, 3, Len(input)),
                    SlashCount(SubSeq(input, 3, Len(input))))

\* Url::as_str
Url_as_str(url) ==
    <<url.scheme, ":">>
    \o (IF ~url.authority THEN <<>>
        ELSE <<"//">>
             \o (IF url.userinfo = <<>> THEN <<>> ELSE url.userinfo \o <<"@">>)
             \o (IF url.host = None THEN <<>> ELSE url.host[1])
             \o (IF url.port = None THEN <<>> ELSE <<":", U16Text(url.port[1])>>))
    \o url.path

\* Url::port_or_known_default
Url_port_or_known_default(url) ==
    IF url.port # None THEN url.port ELSE KnownDefaultPort(url.scheme)

\* str::trim_end_matches('/')
RECURSIVE trim_end_matches(_)
trim_end_matches(s) ==
    IF Len(s) >= 1 /\ IsSlash(s[Len(s)]) THEN trim_end_matches(SubSeq(s, 1, Len(s) - 1))
    ELSE s

\* ------------------------------------------------------------------------
\* Errors: what anyhow!(...) carries and eprintln! writes
\* ------------------------------------------------------------------------

\* an error or a line of the error stream: the place that made it, the text
\* pieces formatted into it and the numbers formatted into it
Error(site, text, nums) == [site |-> site, text |-> text, nums |-> nums]

Line(kind, e) == [kind |-> kind, site |-> e.site, text |-> e.text, nums |-> e.nums]

\* print_usage: the lines it writes to stderr (one model line)
print_usage == <<Line("usage", Error("print_usage", <<>>, <<>>))>>

\* ------------------------------------------------------------------------
\* Address normaliser
\* ------------------------------------------------------------------------

Ok(v) == [ok |-> TRUE, val |-> Some(v), err |-> None]
Err(e) == [ok |-> FALSE, val |-> None, err |-> Some(e)]

\* Url::parse(&url_str).context(ctx), given what Url::parse returned: the
\* error shows as the context alone
Context(parsed, ctx) ==
    IF parsed # None THEN Ok(parsed[1]) ELSE Err(Error(ctx, <<>>, <<>>))

\* the index of the first "]:" of the input (str::find), as Option
FindBracketColon(input) ==
    IF \E i \in 1..(Len(input) - 1) : input[i] = "]" /\ input[i+1] = ":"
    THEN Some(CHOOSE i \in 1..(Len(input) - 1) :
                /\ input[i] = "]" /\ input[i+1] = ":"
                /\ \A j \in 1..(i-1) : ~(input[j] = "]" /\ input[j+1] = ":"))
    ELSE None

\* the [ipv6]:port form, "]:" being at bracket_end: Some(url_str) when the
\* input starts with '[', the port is a u16 and the address parses
BracketForm(input, bracket_end) ==
    IF /\ bracket_end # None
       /\ input[1] = "["
       /\ ParseU16(SubSeq(input, bracket_end[1] + 2, Len(input))) # None
       /\ IpAddr_from_str(SubSeq(input, 2, bracket_end[1] - 1)) # None
    THEN Some(<<"http", ":", "//", "[">>
              \o IpAddr_from_str(SubSeq(input, 2, bracket_end[1] - 1))[1]
              \o <<"]", ":">> \o SubSeq(input, bracket_end[1] + 2, Len(input)))
    ELSE None

\* the addr:port form, the last ':' being at colon_pos
ColonForm(input, colon_pos) ==
    IF /\ colon_pos # None
       /\ ParseU16(SubSeq(input, colon_pos[1] + 1, Len(input))) # None
       /\ IpAddr_from_str(SubSeq(input, 1, colon_pos[1] - 1)) # None
    THEN Some(<<"http", ":", "//">> \o IpAddr_from_str(SubSeq(input, 1, colon_pos[1] - 1))[1]
              \o <<":">> \o SubSeq(input, colon_pos[1] + 1, Len(input)))
    ELSE None

\* the three IP forms, in the order the code tries them: the URL text built
\* and the context of its parse, or None
IpForm(input) ==
    IF BracketForm(input, FindBracketColon(input)) # None
    THEN Some([url_str |-> BracketForm(input, FindBracketColon(input))[1],
               ctx |-> "Failed to convert IP address with port to URL"])
    ELSE IF ColonForm(input, RFindTok(input, ":")) # None
    THEN Some([url_str |-> ColonForm(input, RFindTok(input, ":"))[1],
               ctx |-> "Failed to convert IP address with port to URL"])
    ELSE IF IpAddr_from_str(input) # None
    THEN Some([url_str |-> <<"http", ":", "//">> \o IpAddr_from_str(input)[1],
               ctx |-> "Failed to convert IP address to URL"])
    ELSE None

\* parse_url_or_ip once the input did not parse as a URL
FromIpForm(input, form) ==
    IF form = None THEN Err(Error("Invalid URL or IP address", input, <<>>))
    ELSE Context(Url_parse(form[1].url_str), form[1].ctx)

FirstOk(direct, input) ==
    IF direct # None THEN Ok(direct[1]) ELSE FromIpForm(input, IpForm(input))

parse_url_or_ip(input) == FirstOk(Url_parse(input), input)

\* ------------------------------------------------------------------------
\* Command line
\* ------------------------------------------------------------------------

Commands(name, url, amount_msat, description) ==
    [name |-> name, url |-> url, amount_msat |-> amount_msat,
     description |-> description]

ArgsErr(usage, site) ==
    [ok |-> FALSE, val |-> None, err |-> Some(Error(site, <<>>, <<>>)), usage |-> usage]

\* the error of a command name that is none of the known ones, the name
\* formatted into it, after print_usage()
UnknownCommand(command_name) ==
    [ok |-> FALSE, val |-> None, err |-> Some(Error("Unknown command", command_name, <<>>)),
     usage |-> TRUE]

ArgsOk(command) == [ok |-> TRUE, val |-> Some(command), err |-> None, usage |-> FALSE]

\* the match arm of a known command once the number of arguments is right:
\* url is what parse_url_or_ip(&args[2]) returned
ParsedCommand(argv, url) ==
    IF ~url.ok THEN [ok |-> FALSE, val |-> None, err |-> url.err, usage |-> FALSE]
    ELSE IF argv[2] = <<"request-channel">>
    THEN ArgsOk(Commands("RequestChannel", url.val[1], 0, None))
    ELSE IF argv[2] = <<"request-withdraw">>
    THEN IF ParseU64(argv[4]) = None
         THEN ArgsErr(FALSE, "amount_msat must be a valid number")
         ELSE ArgsOk(Commands("RequestWithdraw", url.val[1], ParseU64(argv[4])[1],
                              IF Len(argv) = 5 THEN Some(argv[5]) ELSE None))
    ELSE ArgsOk(Commands("RequestAuth", url.val[1], 0, None))

\* the error of a known command with too few or too many arguments, or None
ArityError(argv) ==
    LET n == Len(argv) IN
    IF argv[2] = <<"request-channel">>
    THEN IF n < 3 THEN Some("request-channel requires a <url> argument")
         ELSE IF n > 3 THEN Some("request-channel does not accept additional arguments")
         ELSE None
    ELSE IF argv[2] = <<"request-withdraw">>
    THEN IF n < 4 THEN Some("request-withdraw requires <url> and <amount_msat> arguments")
         ELSE IF n > 5 THEN Some("request-withdraw accepts at most 3 arguments")
         ELSE None
    ELSE IF n < 3 THEN Some("request-auth requires a <url> argument")
         ELSE IF n > 3 THEN Some("request-auth does not accept additional arguments")
         ELSE None

KnownCommands ==
    {<<"request-channel">>, <<"request-withdraw">>, <<"request-auth">>, <<"lnurl-auth">>}

\* parse_args: [ok, val: Option<Commands>, err: Option<Error>, usage], where
\* usage tells whether print_usage() was called on the way
parse_args(argv) ==
    IF Len(argv) < 2 THEN ArgsErr(TRUE, "No command provided")
    ELSE IF argv[2] \notin KnownCommands THEN UnknownCommand(argv[2])
    ELSE IF ArityError(argv) # None THEN ArgsErr(FALSE, ArityError(argv)[1])
    ELSE ParsedCommand(argv, parse_url_or_ip(argv[3]))

\* the address arguments of the model
GoodAddrs ==
    { <<"http", ":", "//", "example.com">>,
      <<"https", ":", "//", "example.com", ":", "8080", "/">>,
      <<"1.2.3.4", ":", "8080">> }

OtherAddrs ==
    { <<"http", ":", "//", "example.com", ":", "80">>,
      <<"1.2.3.4">>,
      <<"[", ":", ":", "01", "]", ":", "8080">>,
      <<":", ":", "1">>,
      <<":", ":", "1", ":", "8080">>,
      <<"localhost", ":", "8080">>,
      <<"example.com">>,
      <<"1.2.3.4", ":", "70000">>,
      <<"http", ":", "//", "example.com", ":", "70000">>,
      <<"http", ":", "/", "example.com">>,
      <<"http", ":", "//", "example.com", "@", "localhost">>,
      <<"abc", ":", "//", "@">>,
      <<"abc", ":", "//", "@", "/">> }

AddrInputs == GoodAddrs \cup OtherAddrs

AmountInputs == {<<"0">>, <<"1">>, <<"2">>, <<"3">>, <<"abc">>,
                 <<"99999999999999999999">>}

Prog == <<"lnurl-client">>

\* the command lines of the model
ArgvSet ==
    {<<Prog>>, <<Prog, <<"bogus">>>>, <<Prog, <<"bogus">>, <<"1.2.3.4">>>>}
    \cup {<<Prog, c>> : c \in {<<"request-channel">>, <<"request-withdraw">>,
                               <<"request-auth">>}}
    \cup {<<Prog, c, a>> : c \in {<<"request-channel">>, <<"request-auth">>,
                                  <<"request-withdraw">>},
                           a \in AddrInputs}
    \cup {<<Prog, <<"lnurl-auth">>, a>> : a \in GoodAddrs}
    \cup {<<Prog, c, a, <<"extra">>>> : c \in {<<"request-channel">>, <<"request-auth">>},
                                        a \in GoodAddrs}
    \cup {<<Prog, <<"request-withdraw">>, a, m>> : a \in GoodAddrs, m \in AmountInputs}
    \cup {<<Prog, <<"request-withdraw">>, a, <<"1">>>> : a \in OtherAddrs}
    \cup {<<Prog, <<"request-withdraw">>, a, m, <<"my invoice">>>> :
            a \in {<<"1.2.3.4", ":", "8080">>}, m \in AmountInputs}
    \cup {<<Prog, <<"request-withdraw">>, <<"1.2.3.4", ":", "8080">>, <<"1">>,
            <<"my invoice">>, <<"extra">>>>}

\* ------------------------------------------------------------------------
\* The environment: the local node and the LNURL server
\* ------------------------------------------------------------------------

Pubkeys == {"02aa", "03bb"}
PeerPubkeys == {"02peer"}
K1s == {"k1a", "k1+b"}
CallbackUrls == {"https://svc/cbA", "https://svc/cbB"}
Invoices == {"lntb1", "lntb2"}
Signatures == {"zbase1", "zbase2"}

\* what the answer to an RPC request can be: an error, the response variant
\* the request asks for, or another variant
RpcAnswers == {"Err", "Expected", "Other"}

\* what ureq's call() can return: Ok(response) for a final status below 400
\* (a 2xx, or a 3xx that is not followed), Err(Status(code, response)) for a
\* status from 400 on, or Err(Transport)
TransportWhys == {"timed out", "Dns Failed"}
OkCodes == {200, 300}
StatusCodes == {404, 500}
ErrorBodies == {Some("insufficient funds"), Some("{status:OK}"), None}

HttpOk(code, doc) ==
    [kind |-> "Ok", why |-> "", code |-> code, body |-> None, doc |-> Some(doc)]
HttpStatus(code, body) ==
    [kind |-> "Status", why |-> "status code", code |-> code, body |-> body, doc |-> None]
HttpTransport(why) ==
    [kind |-> "Transport", why |-> why, code |-> 0, body |-> None, doc |-> None]

\* a request to a URL that is not http(s)://host cannot be sent at all
HttpAnswers(sendable, docs) ==
    IF ~sendable THEN {HttpTransport("Unknown Scheme")}
    ELSE {HttpOk(c, d) : c \in OkCodes, d \in docs}
         \cup {HttpStatus(c, b) : c \in StatusCodes, b \in ErrorBodies}
         \cup {HttpTransport(w) : w \in TransportWhys}

Sendable(url) == url.scheme \in {"http", "https"} /\ url.host # None

\* Display of a ureq::Error for a request to url_text: the URL, then what
\* went wrong
ureq_Error_to_string(a, url_text) ==
    Error("ureq", url_text \o <<a.why>>, IF a.kind = "Status" THEN <<a.code>> ELSE <<>>)

\* a response body that is not the JSON the code deserialises
Malformed == [wellformed |-> FALSE]

\* the peer URIs GET /request-channel can carry
PeerUris ==
    { <<"02peer", "@", "1.2.3.4", ":", "9735">>,
      <<"02peer", "@", "1.2.3.4", ":", "9735", ":", "1">>,
      <<"02peer1.2.3.4", ":", "9735">>,
      <<"02peer", "@", "1.2.3.4", "@", "9735">>,
      <<"02peer", "@", "1.2.3.4">>,
      <<"02peer", "@", "1.2.3.4", ":", "abc">>,
      <<"02peer", "@", "1.2.3.4", ":", "70000">>,
      <<"nokey", "@", "1.2.3.4", ":", "9735">>,
      <<"02peer", "@", "example.com", ":", "9735">> }

ChannelRequestDocs ==
    {[wellformed |-> TRUE, uri |-> u, callback |-> c, k1 |-> k] :
        u \in PeerUris, c \in CallbackUrls, k \in K1s}
    \cup {Malformed}

\* {status, reason?} bodies; a body without status does not deserialise
OutcomeDocs ==
    {[wellformed |-> TRUE, status |-> st, reason |-> r] :
        st \in {"OK", "ERROR", "ok"}, r \in {None, Some("too slow")}}
    \cup {Malformed}

WithdrawRequestDocs ==
    {[wellformed |-> TRUE, callback |-> c, k1 |-> k,
      default_description |-> <<"default description">>,
      min_withdrawable |-> lo, max_withdrawable |-> hi] :
        c \in CallbackUrls, k \in K1s, lo \in 0..MaxMsat, hi \in 0..MaxMsat}
    \cup {Malformed}

\* the body of GET /auth-challenge: text, either a bare token or {"k1":token};
\* "{" opens a JSON object
ChallengeBodies ==
    UNION {{ <<k>>, <<" ", k, "\n">>, <<"{", "k1", k, "}">>, <<" ", "{", "k1", k, "}">> } :
              k \in K1s}
    \cup {<<"{", "nok1", "}">>, <<>>}

\* ------------------------------------------------------------------------
\* Calls
\* ------------------------------------------------------------------------

NoParams ==
    [k1 |-> None, pr |-> None, remoteid |-> None, signature |-> None,
     pubkey |-> None, peer |-> None, amount_msat |-> None, description |-> None]

\* the answer to an RPC request, in the shape of an HTTP answer
RpcAnswer(ans) == [kind |-> ans, why |-> "", code |-> 0, body |-> None, doc |-> None]

\* the answer to an RPC request whose expected response carries the value v
\* (the node's id, the invoice, the signature)
RpcReturn(ans, v) ==
    [RpcAnswer(ans) EXCEPT !.doc = IF ans = "Expected" THEN Some(v) ELSE None]

\* one call to the node (kind "rpc", ClnRpc::new included) or to the server
\* (kind "http"): what was
\* asked, whether ureq's timeout was set on it, and the answer it got
Call(kind, api, target, timeout, params, answer) ==
    [kind |-> kind, api |-> api, target |-> target, timeout |-> timeout,
     params |-> params, answer |-> answer]

\* the call failed: an RPC error, an HTTP error status or no HTTP answer
CallFailed(c) == c.answer.kind \in {"Err", "Status", "Transport"}

NoLocals ==
    [node_uri |-> None, pubkey |-> None, resp |-> None, description |-> None,
     bolt11 |-> None, k1 |-> None, signature |-> None]

\* ------------------------------------------------------------------------
\* main
\* ------------------------------------------------------------------------

Init ==
    /\ pc = "main"
    /\ args \in ArgvSet
    /\ cmd = None
    /\ locals = NoLocals
    /\ calls = <<>>
    /\ stderr = <<>>
    /\ result = "none"
    /\ exitCode = None

\* the first step of the flow main dispatches to
FlowEntry(command) ==
    CASE command.name = "RequestChannel" -> "channel_rpc_new"
      [] command.name = "RequestWithdraw" -> "withdraw_rpc_new"
      [] command.name = "RequestAuth" -> "auth_rpc_new"

\* main once parse_args returned r: on Err report and exit(1), else run the flow
main_match(r) ==
    IF r.ok
    THEN /\ cmd' = r.val
         /\ pc' = FlowEntry(r.val[1])
         /\ UNCHANGED <<stderr, exitCode>>
    ELSE /\ stderr' = stderr \o (IF r.usage THEN print_usage ELSE <<>>)
                             \o <<Line("error", r.err[1])>>
         /\ exitCode' = Some(1)
         /\ pc' = "exited"
         /\ UNCHANGED cmd

\* parse_args of every command line of the model, computed once
ParsedArgs == [a \in ArgvSet |-> parse_args(a)]

\* main, up to the call of the flow
main_parse_args ==
    /\ pc = "main"
    /\ main_match(ParsedArgs[args])
    /\ UNCHANGED <<args, locals, calls, result>>

\* the exit code main gives a flow's Result
main_exit_code(res) == IF res = "Err" THEN 1 ELSE 0

\* the failed step reported and taken again instead of ending the run
ReturnErr_retry(e) ==
    /\ stderr' = Append(stderr, Line("error", e))
    /\ UNCHANGED <<pc, result, exitCode>>

\* the flow returned Err(e): main reports it and exits
ReturnErr(e) ==
    /\ result' = "Err"
    /\ stderr' = Append(stderr, Line("error", e))
    /\ exitCode' = Some(main_exit_code("Err"))
    /\ pc' = "exited"

\* the flow returned Ok(()): main returns
ReturnOk ==
    /\ result' = "Ok"
    /\ stderr' = stderr
    /\ exitCode' = Some(main_exit_code("Ok"))
    /\ pc' = "exited"

\* exit codes of a Rust process that panicked (unwinding or aborting build)
PanicExitCodes == {101, 134}

\* the flow panicked: the panic message goes to stderr, main never resumes
Panicked(msg) ==
    /\ result' = "Panic"
    /\ stderr' = Append(stderr, Line("panic", Error(msg, <<>>, <<>>)))
    /\ \E c \in PanicExitCodes : exitCode' = Some(c)
    /\ pc' = "exited"

\* the flow going on although the connection to the node was not opened
RpcNew_unchecked(here, next) ==
    /\ pc = here
    /\ \E conn_ok \in BOOLEAN :
         /\ calls' = Append(calls, Call("rpc", "ClnRpc::new", <<>>, FALSE, NoParams,
                                        RpcAnswer(IF conn_ok THEN "Expected" ELSE "Err")))
         /\ pc' = next
    /\ UNCHANGED <<args, cmd, locals, stderr, result, exitCode>>

\* runtime build and ClnRpc::new at the head of each flow; either can fail
RpcNew(here, next) ==
    /\ pc = here
    /\ \E rt_ok \in BOOLEAN, conn_ok \in BOOLEAN :
         IF ~rt_ok
         THEN /\ ReturnErr(Error("Failed to create Tokio runtime", <<>>, <<>>))
              /\ calls' = Append(calls, Call("sys", "Runtime::build", <<>>, FALSE,
                                             NoParams, RpcAnswer("Err")))
         ELSE /\ calls' = Append(calls, Call("rpc", "ClnRpc::new", <<>>, FALSE, NoParams,
                                             RpcAnswer(IF conn_ok THEN "Expected"
                                                       ELSE "Err")))
              /\ IF conn_ok
                 THEN /\ pc' = next
                      /\ UNCHANGED <<stderr, result, exitCode>>
                 ELSE ReturnErr(Error("ClnRpc::new", <<>>, <<>>))
    /\ UNCHANGED <<args, cmd, locals>>

\* ------------------------------------------------------------------------
\* Channel request
\* ------------------------------------------------------------------------

channel_rpc_new == RpcNew("channel_rpc_new", "channel_getinfo")

\* get_node_uri
channel_getinfo ==
    /\ pc = "channel_getinfo"
    /\ \E ans \in RpcAnswers, pubkey \in Pubkeys :
         /\ calls' = Append(calls, Call("rpc", "getinfo", <<>>, FALSE, NoParams,
                                        RpcReturn(ans, pubkey)))
         /\ CASE ans = "Expected" ->
                   /\ locals' = [locals EXCEPT !.node_uri =
                                   Some(<<pubkey, "@", "127.0.0.1", ":", "49735">>)]
                   /\ pc' = "channel_fetch"
                   /\ UNCHANGED <<stderr, result, exitCode>>
              [] ans = "Err" ->
                   /\ ReturnErr(Error("Failed to get node info", <<>>, <<>>))
                   /\ UNCHANGED locals
              [] ans = "Other" ->
                   /\ ReturnErr(Error("Unexpected response type", <<>>, <<>>))
                   /\ UNCHANGED locals
    /\ UNCHANGED <<args, cmd>>

\* the map_err closure of the parameter fetch
channel_fetch_error(a, url, request_url) ==
    LET msg == ureq_Error_to_string(a, request_url)
        port == Url_port_or_known_default(url)
    IN  IF "timed out" \in Range(msg.text) \/ "connection" \in Range(msg.text)
        THEN Error("ureq", msg.text \o <<"Check: server listening on", "0.0.0.0", ":",
                                        U16Text(IF port = None THEN 80 ELSE port[1])>>,
                   msg.nums)
        ELSE msg

channel_fetch ==
    /\ pc = "channel_fetch"
    /\ LET url == cmd[1].url
           request_url == trim_end_matches(Url_as_str(url)) \o <<"/request-channel">>
       IN \E a \in HttpAnswers(Sendable(url), ChannelRequestDocs) :
            /\ calls' = Append(calls, Call("http", "request-channel", request_url, TRUE,
                                           NoParams, a))
            /\ IF a.kind # "Ok"
               THEN /\ ReturnErr(channel_fetch_error(a, url, request_url))
                    /\ UNCHANGED locals
               ELSE IF ~a.doc[1].wellformed
               THEN /\ ReturnErr(Error("into_json", <<>>, <<>>))
                    /\ UNCHANGED locals
               ELSE /\ locals' = [locals EXCEPT !.resp = a.doc]
                    /\ pc' = "channel_connect"
                    /\ UNCHANGED <<stderr, result, exitCode>>
    /\ UNCHANGED <<args, cmd>>

PublicKey_from_str(s) ==
    IF Len(s) = 1 /\ s[1] \in PeerPubkeys \cup Pubkeys THEN Some(s[1]) ELSE None

Ipv4Addr_parse(s) ==
    IF Len(s) = 1 /\ s[1] \in Ipv4Chunks THEN Some(s[1]) ELSE None

\* connect_to_node up to the RPC call: the ConnectRequest it builds, the
\* error it returns, or the panic of indexing the host's pieces
connect_to_node(node_uri) ==
    LET parsed == Split(node_uri, "@")
        pubkey == PublicKey_from_str(parsed[1])
        host == parsed[2]
        pieces == Split(host, ":")
        ip_addr == Ipv4Addr_parse(pieces[1])
        none == [kind |-> "Err", err |-> None, request |-> None]
    IN  IF Len(parsed) # 2
        THEN [none EXCEPT !.err = Some(Error("Invalid node URI", node_uri, <<>>))]
        ELSE IF pubkey = None
        THEN [none EXCEPT !.err = Some(Error("PublicKey::from_str", <<>>, <<>>))]
        ELSE IF Len(pieces) < 2
        THEN [none EXCEPT !.kind = "Panic"]
        ELSE IF ip_addr = None
        THEN [none EXCEPT !.err = Some(Error("AddrParseError", <<>>, <<>>))]
        ELSE [none EXCEPT !.kind = "Request",
                          !.request = Some([id |-> pubkey[1], host |-> ip_addr,
                                            port |-> ParseU16(pieces[2])])]

\* the connect request's result dropped instead of propagated
connect_ok_ignored(ans) == TRUE

\* the `?` on the result of the connect request: only Err(e) returns
connect_ok(ans) == ans # "Err"

\* connect_to_node of every peer URI of the model, computed once
ConnectPlans == [u \in PeerUris |-> connect_to_node(u)]

channel_connect ==
    /\ pc = "channel_connect"
    /\ LET c == ConnectPlans[locals.resp[1].uri] IN
       CASE c.kind = "Err" -> ReturnErr(c.err[1]) /\ UNCHANGED calls
         [] c.kind = "Panic" -> Panicked("index out of bounds") /\ UNCHANGED calls
         [] c.kind = "Request" ->
              \E ans \in RpcAnswers :
                /\ calls' = Append(calls, Call("rpc", "connect", <<>>, FALSE,
                                               [NoParams EXCEPT !.peer = c.request],
                                               RpcAnswer(ans)))
                /\ IF connect_ok(ans)
                   THEN pc' = "channel_callback" /\ UNCHANGED <<stderr, result, exitCode>>
                   ELSE ReturnErr(Error("connect", <<>>, <<>>))
    /\ UNCHANGED <<args, cmd, locals>>

\* the piece after the '@' of the node URI sent as remoteid
open_url_params_after_at(resp, node_uri) ==
    [NoParams EXCEPT !.remoteid = Some(Split(node_uri, "@")[2][1]),
                     !.k1 = Some(resp.k1)]

\* the query of open_url: remoteid is the node URI up to its '@', k1 is the
\* fetched k1 as it came
open_url_params(resp, node_uri) ==
    [NoParams EXCEPT !.remoteid = Some(Split(node_uri, "@")[1][1]),
                     !.k1 = Some(resp.k1)]

\* the query of open_url as the format! writes it
open_url_query(p) == <<"?remoteid=", p.remoteid[1], "&k1=", p.k1[1]>>

\* Err(e) => return Err(anyhow!("Failed to open channel: {}", e)), e being
\* the error of the GET of open_url
channel_callback_error(a, open_url) ==
    Error("Failed to open channel", ureq_Error_to_string(a, open_url).text,
          ureq_Error_to_string(a, open_url).nums)

\* the callback: any ChannelOpenResponse that deserialises is reported as
\* "Channel opened successfully!" and the flow returns Ok(())
channel_callback ==
    /\ pc = "channel_callback"
    /\ LET resp == locals.resp[1]
       IN \E a \in HttpAnswers(TRUE, OutcomeDocs) :
            /\ calls' = Append(calls, Call("http", "channel-callback", <<resp.callback>>,
                                           FALSE,
                                           open_url_params(resp, locals.node_uri[1]),
                                           a))
            /\ IF a.kind # "Ok"
               THEN ReturnErr(channel_callback_error(a,
                        <<resp.callback>>
                        \o open_url_query(open_url_params(resp, locals.node_uri[1]))))
               ELSE IF ~a.doc[1].wellformed
               THEN ReturnErr(Error("into_json", <<>>, <<>>))
               ELSE ReturnOk
    /\ UNCHANGED <<args, cmd, locals>>

\* ------------------------------------------------------------------------
\* Withdraw request
\* ------------------------------------------------------------------------

withdraw_rpc_new == RpcNew("withdraw_rpc_new", "withdraw_fetch")

\* the range check without its upper bound
amount_in_range_no_upper(amount_msat, resp) ==
    ~(amount_msat < resp.min_withdrawable)

\* the range check with the bounds excluded
amount_in_range_strict(amount_msat, resp) ==
    ~(amount_msat <= resp.min_withdrawable \/ amount_msat >= resp.max_withdrawable)

\* the range check with the upper bound itself rejected
amount_in_range_excl_max(amount_msat, resp) ==
    ~(amount_msat < resp.min_withdrawable \/ amount_msat >= resp.max_withdrawable)

\* the range check with its lower bound missing
amount_in_range_no_lower(amount_msat, resp) ==
    ~(amount_msat > resp.max_withdrawable)

\* the range check on the requested amount
amount_in_range(amount_msat, resp) ==
    ~(amount_msat < resp.min_withdrawable \/ amount_msat > resp.max_withdrawable)

withdraw_fetch ==
    /\ pc = "withdraw_fetch"
    /\ LET url == cmd[1].url
           amount_msat == cmd[1].amount_msat
           request_url == trim_end_matches(Url_as_str(url)) \o <<"/request-withdraw">>
       IN \E a \in HttpAnswers(Sendable(url), WithdrawRequestDocs) :
            /\ calls' = Append(calls, Call("http", "request-withdraw", request_url, FALSE,
                                           NoParams, a))
            /\ IF a.kind # "Ok"
               THEN /\ ReturnErr(ureq_Error_to_string(a, request_url))
                    /\ UNCHANGED locals
               ELSE IF ~a.doc[1].wellformed
               THEN /\ ReturnErr(Error("into_json", <<>>, <<>>))
                    /\ UNCHANGED locals
               ELSE IF ~amount_in_range(amount_msat, a.doc[1])
               THEN /\ ReturnErr(Error("Amount is outside allowed range", <<>>,
                                       <<amount_msat, a.doc[1].min_withdrawable,
                                         a.doc[1].max_withdrawable>>))
                    /\ UNCHANGED locals
               ELSE /\ locals' = [locals EXCEPT
                                    !.resp = a.doc,
                                    !.description =
                                       IF cmd[1].description # None THEN cmd[1].description
                                       ELSE Some(a.doc[1].default_description)]
                    /\ pc' = "withdraw_invoice"
                    /\ UNCHANGED <<stderr, result, exitCode>>
    /\ UNCHANGED <<args, cmd>>

\* the invoice request to the node (its label, made of the current time, is
\* not modelled) and the match on the response
withdraw_invoice ==
    /\ pc = "withdraw_invoice"
    /\ \E ans \in RpcAnswers, inv \in Invoices :
         /\ calls' = Append(calls,
                Call("rpc", "invoice", <<>>, FALSE,
                     [NoParams EXCEPT !.amount_msat = Some(cmd[1].amount_msat),
                                      !.description = locals.description],
                     RpcReturn(ans, inv)))
         /\ CASE ans = "Expected" ->
                   /\ locals' = [locals EXCEPT !.bolt11 = Some(inv)]
                   /\ pc' = "withdraw_callback"
                   /\ UNCHANGED <<stderr, result, exitCode>>
              [] ans = "Err" ->
                   /\ ReturnErr(Error("invoice", <<>>, <<>>))
                   /\ UNCHANGED locals
              [] ans = "Other" ->
                   /\ ReturnErr(Error("Unexpected response type from invoice request",
                                      <<>>, <<>>))
                   /\ UNCHANGED locals
    /\ UNCHANGED <<args, cmd>>

\* urlencoding::encode: unreserved characters stay, the others are escaped
urlencoding_encode(s) ==
    CASE s = "k1+b" -> "k1%2Bb"
      [] s = "" -> ""
      [] OTHER -> s

\* r.into_string().unwrap_or_else(|_| "(no body)")
body_or_no_body(a) == IF a.body = None THEN "(no body)" ELSE a.body[1]

\* reason.unwrap_or_else(|| "Unknown error")
reason_or_unknown(doc) == IF doc.reason = None THEN "Unknown error" ELSE doc.reason[1]

\* the messages of the two flows that end alike
FinalMessage(flow, k) ==
    CASE flow = "withdraw" /\ k = "Status" -> "Withdraw request failed (HTTP)"
      [] flow = "withdraw" /\ k = "Transport" -> "Withdraw request failed"
      [] flow = "withdraw" /\ k = "Ok" -> "Withdrawal failed"
      [] flow = "auth" /\ k = "Status" -> "Auth response failed (HTTP)"
      [] flow = "auth" /\ k = "Transport" -> "Auth request failed"
      [] flow = "auth" /\ k = "Ok" -> "Authentication failed"

\* the status compared without regard to case
status_is_ok_nocase(doc) == doc.status \in {"OK", "ok"}

\* status == "OK"
status_is_ok(doc) == doc.status = "OK"

\* what the withdraw and the auth flow return on the answer to their last
\* GET (the match on http_resp and the test of the status): None for Ok(()),
\* or the error
final_result(a, url_text, flow) ==
    CASE a.kind = "Status" ->
           Some(Error(FinalMessage(flow, a.kind), <<body_or_no_body(a)>>, <<a.code>>))
      [] a.kind = "Transport" ->
           Some(Error(FinalMessage(flow, a.kind),
                      ureq_Error_to_string(a, url_text).text, <<>>))
      [] a.kind = "Ok" ->
           IF ~a.doc[1].wellformed THEN Some(Error("into_json", <<>>, <<>>))
           ELSE IF status_is_ok(a.doc[1]) THEN None
           ELSE Some(Error(FinalMessage(flow, a.kind), <<reason_or_unknown(a.doc[1])>>,
                           <<>>))

Return(r) == IF r = None THEN ReturnOk ELSE ReturnErr(r[1])

\* the two arguments of the format in each other's place
withdraw_url_params_swapped(resp, bolt11) ==
    [NoParams EXCEPT !.k1 = Some(urlencoding_encode(bolt11)), !.pr = Some(resp.k1)]

\* the query of withdraw_url: k1 as it came, pr the invoice, URL-encoded
withdraw_url_params(resp, bolt11) ==
    [NoParams EXCEPT !.k1 = Some(resp.k1), !.pr = Some(urlencoding_encode(bolt11))]

\* the query of withdraw_url as the format! writes it
withdraw_url_query(p) == <<"?k1=", p.k1[1], "&pr=", p.pr[1]>>

withdraw_callback ==
    /\ pc = "withdraw_callback"
    /\ LET resp == locals.resp[1] IN
       \E a \in HttpAnswers(TRUE, OutcomeDocs) :
            /\ calls' = Append(calls,
                   Call("http", "withdraw-callback", <<resp.callback>>, FALSE,
                        withdraw_url_params(resp, locals.bolt11[1]), a))
            /\ Return(final_result(a,
                   <<resp.callback>>
                   \o withdraw_url_query(withdraw_url_params(resp, locals.bolt11[1])),
                   "withdraw"))
    /\ UNCHANGED <<args, cmd, locals>>

\* ------------------------------------------------------------------------
\* Auth request
\* ------------------------------------------------------------------------

auth_rpc_new == RpcNew("auth_rpc_new", "auth_getinfo")

auth_getinfo ==
    /\ pc = "auth_getinfo"
    /\ \E ans \in RpcAnswers, pubkey \in Pubkeys :
         /\ calls' = Append(calls, Call("rpc", "getinfo", <<>>, FALSE, NoParams,
                                        RpcReturn(ans, pubkey)))
         /\ CASE ans = "Expected" ->
                   /\ locals' = [locals EXCEPT !.pubkey = Some(pubkey)]
                   /\ pc' = "auth_challenge"
                   /\ UNCHANGED <<stderr, result, exitCode>>
              [] ans = "Err" ->
                   /\ ReturnErr(Error("getinfo", <<>>, <<>>))
                   /\ UNCHANGED locals
              [] ans = "Other" ->
                   /\ ReturnErr(Error("Unexpected response type from getinfo", <<>>, <<>>))
                   /\ UNCHANGED locals
    /\ UNCHANGED <<args, cmd>>

Whitespace == {" ", "\n"}

\* str::trim
RECURSIVE trim(_)
trim(s) ==
    IF Len(s) >= 1 /\ s[1] \in Whitespace THEN trim(Tail(s))
    ELSE IF Len(s) >= 1 /\ s[Len(s)] \in Whitespace THEN trim(SubSeq(s, 1, Len(s) - 1))
    ELSE s

\* a text of one chunk as a string; the empty text is ""
to_string(s) == IF s = <<>> THEN "" ELSE s[1]

\* the body taken as the token whatever its shape
parse_k1_bare_only(body) == Some(to_string(trim(body)))

\* parse_k1_from_challenge: Some(k1), or None where serde_json fails
parse_k1_from_challenge(body) ==
    LET b == trim(body) IN
    IF Len(b) >= 1 /\ b[1] = "{"
    THEN IF Len(b) = 4 /\ b[2] = "k1" /\ b[4] = "}" THEN Some(b[3]) ELSE None
    ELSE Some(to_string(b))

auth_challenge ==
    /\ pc = "auth_challenge"
    /\ LET url == cmd[1].url
           challenge_url == trim_end_matches(Url_as_str(url)) \o <<"/auth-challenge">>
       IN \E a \in HttpAnswers(Sendable(url),
                               {[wellformed |-> TRUE, text |-> b] : b \in ChallengeBodies}
                               \cup {Malformed}) :
            /\ calls' = Append(calls, Call("http", "auth-challenge", challenge_url, FALSE,
                                           NoParams, a))
            /\ IF a.kind # "Ok"
               THEN /\ ReturnErr(ureq_Error_to_string(a, challenge_url))
                    /\ UNCHANGED locals
               ELSE IF ~a.doc[1].wellformed
               THEN /\ ReturnErr(Error("into_string", <<>>, <<>>))
                    /\ UNCHANGED locals
               ELSE IF parse_k1_from_challenge(a.doc[1].text) = None
               THEN /\ ReturnErr(Error("serde_json", <<>>, <<>>))
                    /\ UNCHANGED locals
               ELSE /\ locals' = [locals EXCEPT
                                    !.k1 = parse_k1_from_challenge(a.doc[1].text)]
                    /\ pc' = "auth_sign"
                    /\ UNCHANGED <<stderr, result, exitCode>>
    /\ UNCHANGED <<args, cmd>>

auth_sign ==
    /\ pc = "auth_sign"
    /\ \E ans \in RpcAnswers, sig \in Signatures :
         /\ calls' = Append(calls, Call("rpc", "signmessage", <<>>, FALSE,
                                        [NoParams EXCEPT !.k1 = locals.k1],
                                        RpcReturn(ans, sig)))
         /\ CASE ans = "Expected" ->
                   /\ locals' = [locals EXCEPT !.signature = Some(sig)]
                   /\ pc' = "auth_response"
                   /\ UNCHANGED <<stderr, result, exitCode>>
              [] ans = "Err" ->
                   /\ ReturnErr(Error("signmessage", <<>>, <<>>))
                   /\ UNCHANGED locals
              [] ans = "Other" ->
                   /\ ReturnErr(Error("Unexpected response type from signmessage",
                                      <<>>, <<>>))
                   /\ UNCHANGED locals
    /\ UNCHANGED <<args, cmd>>

\* k1 put into the query as it came, without encoding
auth_response_params_raw_k1(k1, signature, pubkey) ==
    [NoParams EXCEPT !.k1 = Some(k1),
                     !.signature = Some(urlencoding_encode(signature)),
                     !.pubkey = Some(urlencoding_encode(pubkey))]

\* the query of response_url: the three values, each URL-encoded
auth_response_params(k1, signature, pubkey) ==
    [NoParams EXCEPT !.k1 = Some(urlencoding_encode(k1)),
                     !.signature = Some(urlencoding_encode(signature)),
                     !.pubkey = Some(urlencoding_encode(pubkey))]

\* the query of response_url as the format! writes it
response_url_query(p) ==
    <<"?k1=", p.k1[1], "&signature=", p.signature[1], "&pubkey=", p.pubkey[1]>>

auth_response ==
    /\ pc = "auth_response"
    /\ LET url == cmd[1].url
           response_url == trim_end_matches(Url_as_str(url)) \o <<"/auth-response">>
       IN \E a \in HttpAnswers(Sendable(url), OutcomeDocs) :
            /\ calls' = Append(calls,
                   Call("http", "auth-response", response_url, FALSE,
                        auth_response_params(locals.k1[1], locals.signature[1],
                                             locals.pubkey[1]),
                        a))
            /\ Return(final_result(a,
                   response_url
                   \o response_url_query(auth_response_params(
                          locals.k1[1], locals.signature[1], locals.pubkey[1])),
                   "auth"))
    /\ UNCHANGED <<args, cmd, locals>>

\* ------------------------------------------------------------------------
\* Specification
\* ------------------------------------------------------------------------

Next ==
    \/ main_parse_args
    \/ channel_rpc_new
    \/ channel_getinfo
    \/ channel_fetch
    \/ channel_connect
    \/ channel_callback
    \/ withdraw_rpc_new
    \/ withdraw_fetch
    \/ withdraw_invoice
    \/ withdraw_callback
    \/ auth_rpc_new
    \/ auth_getinfo
    \/ auth_challenge
    \/ auth_sign
    \/ auth_response

Spec == Init /\ [][Next]_vars

\* every call blocks until it returns or fails, and nothing else stops the
\* single thread: a step that can be taken is taken
FairSpec == Spec /\ WF_vars(Next)

\* ------------------------------------------------------------------------
\* Properties
\* ------------------------------------------------------------------------

Exited == pc = "exited"
Succeeded == result = "Ok"
Failed == result = "Err"
InFlow(name) == cmd # None /\ cmd[1].name = name

CallsTo(api) == {i \in DOMAIN calls : calls[i].api = api}
LastCall == calls[Len(calls)]
LastLine == stderr[Len(stderr)]
ErrorLines == {i \in DOMAIN stderr : stderr[i].kind = "error"}

\* the call got an answer that ureq returned as Ok(response) and whose body
\* deserialised
Parsed(c) == c.answer.kind = "Ok" /\ c.answer.doc[1].wellformed

\* C1: in the withdraw flow, when the requested amount is below
\* minWithdrawable or above maxWithdrawable of the fetched parameters, the
\* run has failed with an error that names the amount and the allowed range,
\* the node was never asked for an invoice and the callback was never called.
C1_OutOfRangeStopsFlow ==
    \A i \in CallsTo("request-withdraw") :
        (/\ Parsed(calls[i])
         /\ \/ cmd[1].amount_msat < calls[i].answer.doc[1].min_withdrawable
            \/ cmd[1].amount_msat > calls[i].answer.doc[1].max_withdrawable)
        => /\ Exited /\ Failed
           /\ Len(stderr) = 1
           /\ LastLine.kind = "error"
           /\ LastLine.nums = <<cmd[1].amount_msat,
                                calls[i].answer.doc[1].min_withdrawable,
                                calls[i].answer.doc[1].max_withdrawable>>
           /\ CallsTo("invoice") = {}
           /\ CallsTo("withdraw-callback") = {}

C1_Witness ==
    /\ InFlow("RequestWithdraw") /\ Exited /\ Failed
    /\ Len(calls) = 2 /\ LastCall.api = "request-withdraw" /\ Parsed(LastCall)
    /\ cmd[1].amount_msat > LastCall.answer.doc[1].max_withdrawable
    /\ cmd[1].amount_msat >= LastCall.answer.doc[1].min_withdrawable
    /\ LastLine.nums = <<3, 1, 2>>

\* C2 (as claimed): in the channel flow, a run succeeds only if the callback
\* answered status OK; a callback answer with another status ends the run in
\* failure, with the reason in the reported error and exit code 1.
C2_ChannelStatusDecides ==
    (InFlow("RequestChannel") /\ Exited /\ CallsTo("channel-callback") # {}
     /\ Parsed(LastCall))
    => IF LastCall.answer.doc[1].status = "OK"
       THEN Succeeded /\ exitCode = Some(0)
       ELSE /\ Failed /\ exitCode = Some(1)
            /\ LastCall.answer.doc[1].reason # None
                 => LastCall.answer.doc[1].reason[1] \in Range(LastLine.text)

\* C3: in the withdraw and the auth flow, after a 2xx answer to the last GET
\* (more generally, any answer ureq returns as Ok(response)) the run
\* succeeds exactly when the body deserialised and its status is
\* "OK"; with any other status it fails, exit code 1, and the one reported
\* error carries the reason, or "Unknown error" when there is none.
C3_StatusDecides ==
    \A api \in {"withdraw-callback", "auth-response"} :
        (Exited /\ CallsTo(api) # {} /\ LastCall.answer.kind = "Ok")
        => /\ Succeeded <=> (Parsed(LastCall) /\ LastCall.answer.doc[1].status = "OK")
           /\ Succeeded => exitCode = Some(0)
           /\ (Parsed(LastCall) /\ LastCall.answer.doc[1].status # "OK")
                => /\ Failed /\ exitCode = Some(1)
                   /\ Len(stderr) = 1 /\ LastLine.kind = "error"
                   /\ LastLine.text =
                        IF LastCall.answer.doc[1].reason = None
                        THEN <<"Unknown error">>
                        ELSE LastCall.answer.doc[1].reason

C3_Witness ==
    /\ InFlow("RequestAuth") /\ Exited /\ LastCall.api = "auth-response"
    /\ Parsed(LastCall) /\ LastCall.answer.code = 200
    /\ LastCall.answer.doc[1].status = "ok"
    /\ LastCall.answer.doc[1].reason = None
    /\ Failed /\ LastLine.text = <<"Unknown error">>

\* the peer URIs the claim calls malformed: no single '@', no ":port", a
\* port that is no u16, an invalid public key or an invalid host
MalformedPeerUri(uri) ==
    \/ Len(Split(uri, "@")) # 2
    \/ PublicKey_from_str(Split(uri, "@")[1]) = None
    \/ Len(Split(Split(uri, "@")[2], ":")) < 2
    \/ Ipv4Addr_parse(Split(Split(uri, "@")[2], ":")[1]) = None
    \/ ParseU16(Split(Split(uri, "@")[2], ":")[2]) = None

\* C4 (as claimed): in the channel flow, when the fetched peer URI is
\* malformed, no connect request is sent to the node, the callback is never
\* called and the run fails with a reported error.
C4_MalformedUriStopsFlow ==
    \A i \in CallsTo("request-channel") :
        (Parsed(calls[i]) /\ MalformedPeerUri(calls[i].answer.doc[1].uri))
        => /\ CallsTo("connect") = {}
           /\ CallsTo("channel-callback") = {}
           /\ Exited => (~Succeeded /\ Len(stderr) = 1)

FetchApis == {"request-channel", "request-withdraw", "auth-challenge"}

\* the text names every token of toks
Mentions(text, toks) == \A t \in Range(toks) : t \in Range(text)

\* C5 (as claimed): in each flow, when the parameter fetch timed out, the
\* run has failed with one error whose message names the server's host and
\* port, and the fetch is the last call of the run.
C5_FetchTimeoutNamesHostPort ==
    \A i \in DOMAIN calls :
        (calls[i].api \in FetchApis /\ calls[i].answer.why = "timed out")
        => /\ Exited /\ Failed /\ i = Len(calls)
           /\ Len(stderr) = 1 /\ LastLine.kind = "error"
           /\ Mentions(LastLine.text, cmd[1].url.host[1])
           /\ U16Text(Url_port_or_known_default(cmd[1].url)[1]) \in Range(LastLine.text)

\* a challenge body of one of the two accepted shapes
GoodChallenge(body) ==
    \E k \in K1s : trim(body) \in {<<k>>, <<"{", "k1", k, "}">>}

\* the call was answered as a run without any failure needs it: the node
\* gave the expected response; the server gave a response ureq returns as
\* Ok(response), as every 2xx is, with well-formed fields,
\* a requested amount within the range and status "OK"
GoodCall(c) ==
    IF c.kind # "http" THEN c.answer.kind = "Expected"
    ELSE /\ Parsed(c)
         /\ CASE c.api = "request-channel" -> ~MalformedPeerUri(c.answer.doc[1].uri)
              [] c.api = "request-withdraw" ->
                   /\ c.answer.doc[1].min_withdrawable <= cmd[1].amount_msat
                   /\ cmd[1].amount_msat <= c.answer.doc[1].max_withdrawable
              [] c.api = "auth-challenge" -> GoodChallenge(c.answer.doc[1].text)
              [] OTHER -> c.answer.doc[1].status = "OK"

AllGood == \A i \in DOMAIN calls : GoodCall(calls[i])

\* C6: whichever flow was selected, the run ends, and when every call of the
\* run was answered well (node calls succeed, HTTP answers are 2xx, or any
\* other response ureq returns as Ok(response), with well-formed fields and
\* status "OK", the withdraw amount is within range)
\* it ends in success with exit code 0.
C6_GoodRunSucceeds ==
    (cmd # None) ~> (Exited /\ (AllGood => (Succeeded /\ exitCode = Some(0))))

C6_Witness ==
    /\ InFlow("RequestWithdraw") /\ Exited /\ AllGood /\ Succeeded
    /\ Len(calls) = 4
    /\ cmd[1].amount_msat = calls[2].answer.doc[1].min_withdrawable
    /\ exitCode = Some(0)

\* C7 (as claimed): a run that ended with exit code 0 ran its flow to
\* success; any other run ended with exit code 1 and exactly one error
\* reported on the error stream.
C7_FailureReportedOnceExitOne ==
    Exited => IF exitCode = Some(0) THEN Succeeded
              ELSE exitCode = Some(1) /\ Cardinality(ErrorLines) = 1

\* C8 (as claimed): when the arguments are rejected, usage has been printed
\* to the error stream, the exit code is 1 and no call was made.
C8_BadArgsPrintUsage ==
    (Exited /\ cmd = None)
    => /\ \E i \in DOMAIN stderr : stderr[i].kind = "usage"
       /\ exitCode = Some(1)
       /\ calls = <<>>

AnyFailed == \E i \in DOMAIN calls : CallFailed(calls[i])

\* C9: once a call has failed no further call is issued, and no endpoint or
\* RPC method is called twice in a run.
C9_FailureIsTerminal ==
    [][/\ AnyFailed => calls' = calls
       /\ \A i, j \in DOMAIN calls' : i # j => calls'[i].api # calls'[j].api]_vars

C9_Witness ==
    /\ Exited /\ Failed /\ Len(calls) = 3
    /\ CallFailed(calls[3]) /\ ~CallFailed(calls[1]) /\ ~CallFailed(calls[2])
    /\ calls[3].kind = "http"

\* a response with a status outside 200..299 that carries a body: the error
\* response of a status from 400 on, or a 3xx that ureq hands back as
\* Ok(response)
NonSuccessWithBody(a) ==
    /\ a.kind \in {"Ok", "Status"}
    /\ a.code \notin 200..299
    /\ (a.body # None \/ a.doc # None)

\* C10: in the withdraw and the auth flow, when the last GET is answered
\* with a status outside 200..299 and a body, the run fails with exit code 1,
\* the one reported error is that of a failed request (not an outcome read
\* from the body) and carries the body unchanged, so that the flow never
\* succeeds on such a response.
C10_NonSuccessNeverParsed ==
    \A api \in {"withdraw-callback", "auth-response"} :
        (CallsTo(api) # {} /\ NonSuccessWithBody(LastCall.answer))
        => /\ Exited /\ Failed /\ exitCode = Some(1)
           /\ Len(stderr) = 1 /\ LastLine.kind = "error"
           /\ LastLine.site \in {FinalMessage("withdraw", "Status"),
                                 FinalMessage("auth", "Status")}
           /\ LastCall.answer.body # None => LastLine.text = LastCall.answer.body

\* the flow went on from the parameter fetch to the creation of the invoice
ProceededToInvoice == pc = "withdraw_invoice" \/ CallsTo("invoice") # {}

\* C11: in the withdraw flow, once the parameters are fetched, the flow goes
\* on to the creation of the invoice exactly when min <= amount <= max; in
\* particular an amount equal to minWithdrawable or to maxWithdrawable (of a
\* range with min <= max) passes the validation.
C11_BoundaryInclusive ==
    \A i \in CallsTo("request-withdraw") :
        Parsed(calls[i])
        => LET lo == calls[i].answer.doc[1].min_withdrawable
               hi == calls[i].answer.doc[1].max_withdrawable
               amount == cmd[1].amount_msat
           IN /\ ProceededToInvoice <=> (lo <= amount /\ amount <= hi)
              /\ (lo <= hi /\ amount \in {lo, hi}) => ProceededToInvoice

C11_Witness ==
    /\ InFlow("RequestWithdraw") /\ Len(calls) = 3 /\ LastCall.api = "invoice"
    /\ Parsed(calls[2])
    /\ cmd[1].amount_msat = calls[2].answer.doc[1].max_withdrawable
    /\ calls[2].answer.doc[1].min_withdrawable < cmd[1].amount_msat
    /\ LastCall.params.amount_msat = Some(2)

\* parse_args got as far as normalising the address argument, and nothing
\* but the address could make it fail
AddressApplied ==
    /\ pc # "main"
    /\ Len(args) >= 3
    /\ args[2] \in KnownCommands
    /\ ArityError(args) = None
    /\ args[2] = <<"request-withdraw">> => ParseU64(args[4]) # None

\* C12 (as claimed): every address the normaliser returned has a host, and
\* a port that is explicit or the default of its scheme (a scheme it always
\* has).
C12_AddressHasHostAndPort ==
    cmd # None
    => /\ cmd[1].url.host # None
       /\ Url_port_or_known_default(cmd[1].url) # None

\* the host of a URL for the IP address ip, an IPv6 address in brackets and
\* in canonical form
HostText(ip) ==
    IF Len(ip) = 1 THEN ip ELSE <<"[">> \o IpAddr_from_str(ip)[1] \o <<"]">>

\* addr:port with addr an IPv4 or IPv6 address and port a u16
HostPortInput(a) ==
    /\ Len(a) >= 3 /\ a[Len(a) - 1] = ":"
    /\ ParseU16(SubSeq(a, Len(a), Len(a))) # None
    /\ IpAddr_from_str(SubSeq(a, 1, Len(a) - 2)) # None

\* [addr]:port with addr an IPv6 address and port a u16
BracketInput(a) ==
    /\ Len(a) >= 5 /\ a[1] = "[" /\ a[Len(a) - 2] = "]" /\ a[Len(a) - 1] = ":"
    /\ ParseU16(SubSeq(a, Len(a), Len(a))) # None
    /\ Ipv6Display(SubSeq(a, 2, Len(a) - 3)) # None

\* the normaliser returned http://host:port for the address ip and the
\* port text
NormalizedTo(ip, port) ==
    /\ cmd # None
    /\ cmd[1].url.scheme = "http"
    /\ cmd[1].url.host = Some(HostText(ip))
    /\ Url_port_or_known_default(cmd[1].url) = port

\* C13 (as claimed): the normaliser succeeds on every addr:port and
\* [ipv6]:port input with a URL of that host and port, returns a well-formed
\* URL as Url::parse gave it, and turns a bare IPv4 or IPv6 address into
\* http://addr.
C13_AddressRoundTrips ==
    AddressApplied
    => LET a == args[3] IN
       /\ HostPortInput(a)
            => NormalizedTo(SubSeq(a, 1, Len(a) - 2), ParseU16(SubSeq(a, Len(a), Len(a))))
       /\ BracketInput(a)
            => NormalizedTo(SubSeq(a, 2, Len(a) - 3), ParseU16(SubSeq(a, Len(a), Len(a))))
       /\ Url_parse(a) # None => (cmd # None /\ cmd[1].url = Url_parse(a)[1])
       /\ (IpAddr_from_str(a) # None /\ ~HostPortInput(a))
            => (NormalizedTo(a, Some(80)) /\ cmd[1].url.port = None)

HttpCalls == {i \in DOMAIN calls : calls[i].kind = "http"}

\* C14 (as claimed): every HTTP request of every flow, fetch or callback, is
\* issued with the timeout HTTP_TIMEOUT set on it.
C14_EveryHttpCallTimed ==
    \A i \in HttpCalls : calls[i].timeout

\* C15: in the auth flow, a challenge body that is the bare token t and one
\* that is the structure {"k1": t} are both parsed to k1 = t.
C15_ChallengeShapesAgree ==
    \A i \in CallsTo("auth-challenge") : \A t \in K1s :
        (/\ Parsed(calls[i])
         /\ calls[i].answer.doc[1].text \in {<<t>>, <<"{", "k1", t, "}">>})
        => /\ parse_k1_from_challenge(calls[i].answer.doc[1].text) = Some(t)
           /\ locals.k1 = Some(t)

C15_Witness ==
    /\ pc = "auth_sign" /\ LastCall.api = "auth-challenge"
    /\ LastCall.answer.doc[1].text = <<"{", "k1", "k1+b", "}">>
    /\ locals.k1 = Some("k1+b")

\* the call before the i-th is a call to api
Before(i, api) == i > 1 /\ calls[i - 1].api = api

\* the node answered the call with the response the request asks for
Answered(c) == c.answer.kind = "Expected"

\* C16: in the channel flow the calls are getinfo, GET /request-channel,
\* connect, GET callback, in that order: each is issued right after the one
\* before it succeeded, and the callback only after a connect request that
\* did not fail.
C16_ChannelOrder ==
    InFlow("RequestChannel")
    => \A i \in DOMAIN calls :
         /\ calls[i].api \in {"Runtime::build", "ClnRpc::new", "getinfo",
                               "request-channel", "connect", "channel-callback"}
         /\ calls[i].api = "getinfo"
              => (Before(i, "ClnRpc::new") /\ ~CallFailed(calls[i - 1]))
         /\ calls[i].api = "request-channel"
              => (Before(i, "getinfo") /\ Answered(calls[i - 1]))
         /\ calls[i].api = "connect"
              => (Before(i, "request-channel") /\ Parsed(calls[i - 1]))
         /\ calls[i].api = "channel-callback"
              => (Before(i, "connect") /\ ~CallFailed(calls[i - 1]))

C16_Witness ==
    /\ InFlow("RequestChannel") /\ Len(calls) = 5
    /\ calls[2].api = "getinfo" /\ calls[3].api = "request-channel"
    /\ calls[4].api = "connect" /\ calls[5].api = "channel-callback"
    /\ Answered(calls[4])

\* C17: in the withdraw flow the steps are GET /request-withdraw, the range
\* validation, the invoice request, GET callback, in that order: the invoice
\* is requested only right after a fetch whose range holds the amount, the
\* callback only right after the node returned an invoice, and pr is that
\* invoice (URL-encoded).
C17_WithdrawOrder ==
    InFlow("RequestWithdraw")
    => \A i \in DOMAIN calls :
         /\ calls[i].api \in {"Runtime::build", "ClnRpc::new", "request-withdraw",
                               "invoice", "withdraw-callback"}
         /\ calls[i].api = "request-withdraw"
              => (Before(i, "ClnRpc::new") /\ ~CallFailed(calls[i - 1]))
         /\ calls[i].api = "invoice"
              => /\ Before(i, "request-withdraw") /\ Parsed(calls[i - 1])
                 /\ calls[i - 1].answer.doc[1].min_withdrawable <= cmd[1].amount_msat
                 /\ cmd[1].amount_msat <= calls[i - 1].answer.doc[1].max_withdrawable
         /\ calls[i].api = "withdraw-callback"
              => /\ Before(i, "invoice") /\ Answered(calls[i - 1])
                 /\ calls[i].params.pr
                      = Some(urlencoding_encode(calls[i - 1].answer.doc[1]))

C17_Witness ==
    /\ InFlow("RequestWithdraw") /\ Len(calls) = 4
    /\ calls[3].api = "invoice" /\ calls[3].answer.doc = Some("lntb2")
    /\ calls[4].api = "withdraw-callback" /\ calls[4].params.pr = Some("lntb2")

\* C18: in the auth flow the calls are getinfo, GET /auth-challenge,
\* signmessage(k1), GET /auth-response, in that order: the response is sent
\* only right after the node signed, and carries (URL-encoded) the k1 of the
\* challenge, the signature the node returned for that k1 and the public key
\* getinfo returned.
C18_AuthOrder ==
    InFlow("RequestAuth")
    => \A i \in DOMAIN calls :
         /\ calls[i].api \in {"Runtime::build", "ClnRpc::new", "getinfo",
                               "auth-challenge", "signmessage", "auth-response"}
         /\ calls[i].api = "getinfo"
              => (Before(i, "ClnRpc::new") /\ ~CallFailed(calls[i - 1]))
         /\ calls[i].api = "auth-challenge"
              => (Before(i, "getinfo") /\ Answered(calls[i - 1]))
         /\ calls[i].api = "signmessage"
              => /\ Before(i, "auth-challenge") /\ Parsed(calls[i - 1])
                 /\ calls[i].params.k1
                      = parse_k1_from_challenge(calls[i - 1].answer.doc[1].text)
                 /\ calls[i].params.k1 # None
         /\ calls[i].api = "auth-response"
              => /\ Before(i, "signmessage") /\ Answered(calls[i - 1])
                 /\ calls[i].params.k1
                      = Some(urlencoding_encode(calls[i - 1].params.k1[1]))
                 /\ calls[i].params.signature
                      = Some(urlencoding_encode(calls[i - 1].answer.doc[1]))
                 /\ \A g \in CallsTo("getinfo") :
                      calls[i].params.pubkey
                        = Some(urlencoding_encode(calls[g].answer.doc[1]))

C18_Witness ==
    /\ InFlow("RequestAuth") /\ Len(calls) = 5
    /\ calls[2].answer.doc = Some("03bb")
    /\ calls[3].answer.doc[1].text = <<"k1+b">>
    /\ calls[4].params.k1 = Some("k1+b") /\ calls[4].answer.doc = Some("zbase2")
    /\ calls[5].api = "auth-response"
    /\ calls[5].params.k1 = Some("k1%2Bb")
    /\ calls[5].params.signature = Some("zbase2")
    /\ calls[5].params.pubkey = Some("03bb")

\* C19: in the channel and the withdraw flow the callback GET goes to the
\* callback URL of the fetched parameters with the k1 of those parameters,
\* as it came; in the channel flow remoteid is the public key getinfo
\* returned, without "@host:port".
C19_CallbackCarriesFetched ==
    /\ \A i \in CallsTo("channel-callback") :
         /\ CallsTo("request-channel") # {} /\ CallsTo("getinfo") # {}
         /\ \A j \in CallsTo("request-channel") :
              /\ j < i /\ Parsed(calls[j])
              /\ calls[i].params.k1 = Some(calls[j].answer.doc[1].k1)
              /\ calls[i].target = <<calls[j].answer.doc[1].callback>>
         /\ \A g \in CallsTo("getinfo") :
              g < i /\ calls[i].params.remoteid = calls[g].answer.doc
    /\ \A i \in CallsTo("withdraw-callback") :
         /\ CallsTo("request-withdraw") # {}
         /\ \A j \in CallsTo("request-withdraw") :
              /\ j < i /\ Parsed(calls[j])
              /\ calls[i].params.k1 = Some(calls[j].answer.doc[1].k1)
              /\ calls[i].target = <<calls[j].answer.doc[1].callback>>

C19_Witness ==
    /\ InFlow("RequestChannel") /\ Len(calls) = 5
    /\ calls[2].answer.doc = Some("03bb")
    /\ calls[3].answer.doc[1].k1 = "k1+b"
    /\ calls[3].answer.doc[1].callback = "https://svc/cbB"
    /\ calls[5].api = "channel-callback"
    /\ calls[5].params.k1 = Some("k1+b")
    /\ calls[5].params.remoteid = Some("03bb")
    /\ calls[5].target = <<"https://svc/cbB">>

\* C20: in the withdraw flow, every invoice request carries the requested
\* amount_msat, and that amount lies within [minWithdrawable,
\* maxWithdrawable] of the parameters fetched in the run; when the server
\* answered minWithdrawable > maxWithdrawable no invoice is requested.
C20_InvoiceAmountInRange ==
    /\ \A i \in CallsTo("invoice") :
         /\ calls[i].params.amount_msat = Some(cmd[1].amount_msat)
         /\ CallsTo("request-withdraw") # {}
         /\ \A j \in CallsTo("request-withdraw") :
              /\ j < i /\ Parsed(calls[j])
              /\ calls[j].answer.doc[1].min_withdrawable <= calls[i].params.amount_msat[1]
              /\ calls[i].params.amount_msat[1] <= calls[j].answer.doc[1].max_withdrawable
    /\ \A j \in CallsTo("request-withdraw") :
         (/\ Parsed(calls[j])
          /\ calls[j].answer.doc[1].min_withdrawable
               > calls[j].answer.doc[1].max_withdrawable)
         => (CallsTo("invoice") = {} /\ Exited /\ Failed)

C20_Witness ==
    /\ InFlow("RequestWithdraw") /\ Len(calls) = 3 /\ LastCall.api = "invoice"
    /\ LastCall.params.amount_msat = Some(1)
    /\ calls[2].answer.doc[1].min_withdrawable = 0
    /\ calls[2].answer.doc[1].max_withdrawable = 3

\* the connection to the node was opened: ClnRpc::new is the first call of
\* the run and it did not fail
RpcOpened == Len(calls) >= 1 /\ calls[1].api = "ClnRpc::new" /\ ~CallFailed(calls[1])

\* C21: in every flow an HTTP request is issued only after the connection to
\* the node was opened in the run; when opening it (or building the runtime
\* it needs) fails, the run fails with exit code 1 and without any HTTP
\* request, in the withdraw flow too.
C21_NoHttpWithoutRpc ==
    /\ HttpCalls # {} => (RpcOpened /\ \A i \in HttpCalls : i > 1)
    /\ (\E i \in DOMAIN calls :
           calls[i].api \in {"ClnRpc::new", "Runtime::build"} /\ CallFailed(calls[i]))
       => /\ Exited /\ Failed /\ exitCode = Some(1)
          /\ HttpCalls = {}
          /\ Len(calls) = 1

C21_Witness ==
    /\ InFlow("RequestWithdraw") /\ Exited /\ Failed
    /\ Len(calls) = 1 /\ calls[1].api = "ClnRpc::new" /\ CallFailed(calls[1])
    /\ exitCode = Some(1)

====
